---- MODULE Spec2Model ----
(***************************************************************************)
(* Model of streamlit_app.py: the showcase script, re-executed from top to *)
(* bottom once per rerun request of a session.  The script's own state is  *)
(* the per-session st.session_state mapping (key "counter") and the        *)
(* process-wide st.cache_data store behind get_sample_data.                *)
(*                                                                         *)
(* The host that queues rerun requests and drives the script (one request  *)
(* at a time per session, FIFO) is not part of the script; it is modelled  *)
(* after sections 4.1, 5 and 7 of the specification.                       *)
(***************************************************************************)
EXTENDS Integers, Sequences, FiniteSets, TLC

VARIABLES
    session_state,  \* session -> st.session_state mapping (DOMAIN = keys present)
    pc,             \* session -> position of the script pass ("off", "idle", or a line group)
    queue,          \* session -> pending rerun requests, oldest first
    cur,            \* session -> the request of the current (or last) pass
    sel,            \* session -> value of the sidebar selectbox in the browser
    page,           \* session -> section whose widgets are on screen ("none" before the first dispatch)
    bar,            \* session -> percent_complete of the progress loop
    shown,          \* session -> <<v>> once "Current Counter Value" was written in this pass
    df,             \* session -> <<t>> once get_sample_data() returned in this pass
    cache,          \* st.cache_data store: (function, args) -> stored result
    lock,           \* holders of the store's compute lock ({} or one session)
    calls,          \* number of executions of the body of get_sample_data
    memoCalls,      \* number of completed calls of the decorated get_sample_data
    budget,         \* session -> rerun requests the browser may still send
    pre,            \* session -> session_state mapping when the current pass began
    last,           \* session -> outcome of the last pass: "none", "running", "ok", "fault"
    faultAt,        \* session -> pc at which the last fault hit
    hit,            \* session -> button that returned True in this pass
    got,            \* session -> <<v>> value of the counter right after the initialisation
    lastSet,        \* session -> <<v>> last value written by a button update
    incs,           \* session -> passes in which Increment returned True
    decs,           \* session -> passes in which Decrement returned True
    requested,      \* session -> rerun requests made so far
    started         \* session -> passes started so far

vars == <<session_state, pc, queue, cur, sel, page, bar, shown, df, cache, lock,
          calls, memoCalls, budget, pre, last, faultAt, hit, got, lastSet,
          incs, decs, requested, started>>

----------------------------------------------------------------------------
(* Bounds *)

MaxInteractions == 6
MaxConcInteractions == 3
MaxLiveInteractions == 4
MaxQueue == 1
NTables == 2

(* Program constants *)

ProgressSteps == 100
Rows == 20

Sessions == {"A", "B"}
Modes == {"Interactive Widgets", "Data & Charts", "Layout & Media", "Status & State"}
DefaultMode == "Interactive Widgets"
Triggers == {"load", "section", "slider", "balloons", "input", "long", "inc", "dec"}
Keys == {"counter"}
Tables == 1..NTables
Running == {"sidebar", "widgets", "cache_read", "cache_lock", "cache_compute",
            "charts", "layout", "progress", "loop", "spinner", "init", "inc",
            "dec", "display"}

Empty == [k \in {} |-> 0]
SampleKey == <<"get_sample_data", Rows>>

----------------------------------------------------------------------------
(* st.session_state operations used by the script *)

has(m, k) == k \in DOMAIN m

set(m, k, v) == [x \in (DOMAIN m) \cup {k} |-> IF x = k THEN v ELSE m[x]]

get_or_init_always(m, k, d) == set(m, k, d)

get_or_init_inverted(m, k, d) == IF has(m, k) THEN set(m, k, d) ELSE m

get_or_init(m, k, d) == IF has(m, k) THEN m ELSE set(m, k, d)

WriteShared(ss, s, m) == [t \in Sessions |-> m]

Write(ss, s, m) == [ss EXCEPT ![s] = m]

increment_by_two(v) == v + 2

increment(v) == v + 1

decrement_noop(v) == v

decrement(v) == v - 1

----------------------------------------------------------------------------
(* st.cache_data lookup for get_sample_data *)

cache_lookup_uncached(c, key) == <<>>

cache_lookup(c, key) == IF key \in DOMAIN c THEN <<c[key]>> ELSE <<>>

cache_store(c, key, v) == [x \in (DOMAIN c) \cup {key} |-> IF x = key THEN v ELSE c[x]]

----------------------------------------------------------------------------
(* Initial state: no session is connected, the cache is empty. *)

InitWith(b) ==
    /\ session_state = [s \in Sessions |-> Empty]
    /\ pc = [s \in Sessions |-> "off"]
    /\ queue = [s \in Sessions |-> <<>>]
    /\ cur = [s \in Sessions |-> [mode |-> DefaultMode, trig |-> "load"]]
    /\ sel = [s \in Sessions |-> DefaultMode]
    /\ page = [s \in Sessions |-> "none"]
    /\ bar = [s \in Sessions |-> 0]
    /\ shown = [s \in Sessions |-> <<>>]
    /\ df = [s \in Sessions |-> <<>>]
    /\ cache = [k \in {} |-> 0]
    /\ lock = {}
    /\ calls = 0
    /\ memoCalls = 0
    /\ budget = b
    /\ pre = [s \in Sessions |-> Empty]
    /\ last = [s \in Sessions |-> "none"]
    /\ faultAt = [s \in Sessions |-> "none"]
    /\ hit = [s \in Sessions |-> "none"]
    /\ got = [s \in Sessions |-> <<>>]
    /\ lastSet = [s \in Sessions |-> <<>>]
    /\ incs = [s \in Sessions |-> 0]
    /\ decs = [s \in Sessions |-> 0]
    /\ requested = [s \in Sessions |-> 0]
    /\ started = [s \in Sessions |-> 0]

Init == InitWith([s \in Sessions |-> IF s = "A" THEN MaxInteractions ELSE 0])

InitConc == InitWith([s \in Sessions |-> MaxConcInteractions])

InitLive == InitWith([s \in Sessions |-> IF s = "A" THEN MaxLiveInteractions ELSE 0])

----------------------------------------------------------------------------
(* The host: sessions, rerun requests, faults *)

OnScreen(s, w) ==
    CASE w \in {"section", "slider", "balloons"} -> page[s] # "none"
      [] w = "input" -> page[s] = "Interactive Widgets"
      [] w \in {"long", "inc", "dec"} -> page[s] = "Status & State"
      [] OTHER -> FALSE

\* A browser opens the app: a new session, whose first pass is requested.
Connect(s) ==
    /\ pc[s] = "off"
    /\ budget[s] > 0
    /\ pc' = [pc EXCEPT ![s] = "idle"]
    /\ queue' = [queue EXCEPT ![s] = <<[mode |-> DefaultMode, trig |-> "load"]>>]
    /\ budget' = [budget EXCEPT ![s] = @ - 1]
    /\ requested' = [requested EXCEPT ![s] = @ + 1]
    /\ UNCHANGED <<session_state, cur, sel, page, bar, shown, df, cache, lock,
                   calls, memoCalls, pre, last, faultAt, hit, got, lastSet,
                   incs, decs, started>>

\* The user operates widget w; the browser sends the widget values with it.
Interact(s, w, m) ==
    /\ pc[s] # "off"
    /\ budget[s] > 0
    /\ Len(queue[s]) < MaxQueue
    /\ OnScreen(s, w)
    /\ IF w = "section" THEN m # sel[s] ELSE m = sel[s]
    /\ sel' = [sel EXCEPT ![s] = m]
    /\ queue' = [queue EXCEPT ![s] = Append(@, [mode |-> m, trig |-> w])]
    /\ budget' = [budget EXCEPT ![s] = @ - 1]
    /\ requested' = [requested EXCEPT ![s] = @ + 1]
    /\ UNCHANGED <<session_state, pc, cur, page, bar, shown, df, cache, lock,
                   calls, memoCalls, pre, last, faultAt, hit, got, lastSet,
                   incs, decs, started>>

\* The host starts the oldest pending request once the session is idle.
StartRerun(s) ==
    /\ pc[s] = "idle"
    /\ queue[s] # <<>>
    /\ cur' = [cur EXCEPT ![s] = Head(queue[s])]
    /\ queue' = [queue EXCEPT ![s] = Tail(@)]
    /\ pc' = [pc EXCEPT ![s] = "sidebar"]
    /\ started' = [started EXCEPT ![s] = @ + 1]
    /\ pre' = [pre EXCEPT ![s] = session_state[s]]
    /\ last' = [last EXCEPT ![s] = "running"]
    /\ hit' = [hit EXCEPT ![s] = "none"]
    /\ got' = [got EXCEPT ![s] = <<>>]
    /\ shown' = [shown EXCEPT ![s] = <<>>]
    /\ df' = [df EXCEPT ![s] = <<>>]
    /\ bar' = [bar EXCEPT ![s] = 0]
    /\ faultAt' = [faultAt EXCEPT ![s] = "none"]
    /\ UNCHANGED <<session_state, sel, page, cache, lock, calls, memoCalls,
                   budget, lastSet, incs, decs, requested>>

\* An unhandled exception anywhere in the pass: the pass ends there.  Nothing
\* the pass wrote to st.session_state is taken back; a `with` lock is released.
Fault(s) ==
    /\ pc[s] \in Running
    /\ pc' = [pc EXCEPT ![s] = "idle"]
    /\ last' = [last EXCEPT ![s] = "fault"]
    /\ faultAt' = [faultAt EXCEPT ![s] = pc[s]]
    /\ lock' = lock \ {s}
    /\ UNCHANGED <<session_state, queue, cur, sel, page, bar, shown, df, cache,
                   calls, memoCalls, budget, pre, hit, got, lastSet, incs,
                   decs, requested, started>>

----------------------------------------------------------------------------
(* The script, top to bottom *)

\* lines 9-50: title, sidebar widgets, then the branch on app_mode.
Dispatch(mode) ==
    CASE mode = "Interactive Widgets" -> "widgets"
      [] mode = "Data & Charts" -> "cache_read"
      [] mode = "Layout & Media" -> "layout"
      [] mode = "Status & State" -> "progress"

Sidebar(s) ==
    /\ pc[s] = "sidebar"
    /\ page' = [page EXCEPT ![s] = cur[s].mode]
    /\ pc' = [pc EXCEPT ![s] = Dispatch(cur[s].mode)]
    /\ UNCHANGED <<session_state, queue, cur, sel, bar, shown, df, cache, lock,
                   calls, memoCalls, budget, pre, last, faultAt, hit, got,
                   lastSet, incs, decs, requested, started>>

\* End of a pass that ran to the last line of its branch.
EndPass(s) ==
    /\ pc' = [pc EXCEPT ![s] = "idle"]
    /\ last' = [last EXCEPT ![s] = "ok"]

\* lines 50-117: the input widgets; nothing is stored.
Widgets(s) ==
    /\ pc[s] = "widgets"
    /\ EndPass(s)
    /\ UNCHANGED <<session_state, queue, cur, sel, page, bar, shown, df, cache,
                   lock, calls, memoCalls, budget, pre, faultAt, hit, got,
                   lastSet, incs, decs, requested, started>>

\* line 135, the decorated call: a stored result is returned at once.
CacheRead(s) ==
    /\ pc[s] = "cache_read"
    /\ LET r == cache_lookup(cache, SampleKey) IN
         IF r # <<>>
         THEN /\ df' = [df EXCEPT ![s] = r]
              /\ memoCalls' = memoCalls + 1
              /\ pc' = [pc EXCEPT ![s] = "charts"]
         ELSE /\ pc' = [pc EXCEPT ![s] = "cache_lock"]
              /\ UNCHANGED <<df, memoCalls>>
    /\ UNCHANGED <<session_state, queue, cur, sel, page, bar, shown, cache, lock,
                   calls, budget, pre, last, faultAt, hit, got, lastSet, incs,
                   decs, requested, started>>

\* on a miss the caller takes the store's compute lock.
CacheLock(s) ==
    /\ pc[s] = "cache_lock"
    /\ lock = {}
    /\ lock' = {s}
    /\ pc' = [pc EXCEPT ![s] = "cache_compute"]
    /\ UNCHANGED <<session_state, queue, cur, sel, page, bar, shown, df, cache,
                   calls, memoCalls, budget, pre, last, faultAt, hit, got,
                   lastSet, incs, decs, requested, started>>

\* under the lock: look again, else run the body (lines 127-133, random
\* columns: any table) and store its result.
CacheCompute(s) ==
    /\ pc[s] = "cache_compute"
    /\ LET r == cache_lookup(cache, SampleKey) IN
         IF r # <<>>
         THEN /\ df' = [df EXCEPT ![s] = r]
              /\ UNCHANGED <<cache, calls>>
         ELSE \E t \in Tables :
                /\ calls' = calls + 1
                /\ cache' = cache_store(cache, SampleKey, t)
                /\ df' = [df EXCEPT ![s] = <<t>>]
    /\ memoCalls' = memoCalls + 1
    /\ lock' = lock \ {s}
    /\ pc' = [pc EXCEPT ![s] = "charts"]
    /\ UNCHANGED <<session_state, queue, cur, sel, page, bar, shown, budget, pre,
                   last, faultAt, hit, got, lastSet, incs, decs, requested,
                   started>>

\* lines 137-175: table, metrics and charts of df.
Charts(s) ==
    /\ pc[s] = "charts"
    /\ EndPass(s)
    /\ UNCHANGED <<session_state, queue, cur, sel, page, bar, shown, df, cache,
                   lock, calls, memoCalls, budget, pre, faultAt, hit, got,
                   lastSet, incs, decs, requested, started>>

\* lines 179-219: tabs, image, expander, code.
Layout(s) ==
    /\ pc[s] = "layout"
    /\ EndPass(s)
    /\ UNCHANGED <<session_state, queue, cur, sel, page, bar, shown, df, cache,
                   lock, calls, memoCalls, budget, pre, faultAt, hit, got,
                   lastSet, incs, decs, requested, started>>

\* line 230: the "Run a long process" button.
ProgressButton(s) ==
    /\ pc[s] = "progress"
    /\ pc' = [pc EXCEPT ![s] = IF cur[s].trig = "long" THEN "loop" ELSE "spinner"]
    /\ UNCHANGED <<session_state, queue, cur, sel, page, bar, shown, df, cache,
                   lock, calls, memoCalls, budget, pre, last, faultAt, hit, got,
                   lastSet, incs, decs, requested, started>>

loop_stuck(b) == b

loop_next(b) == b + 1

\* lines 234-239: one iteration of the loop, or its end.
ProgressLoop(s) ==
    /\ pc[s] = "loop"
    /\ IF bar[s] < ProgressSteps
       THEN /\ bar' = [bar EXCEPT ![s] = loop_next(@)]
            /\ pc' = pc
       ELSE /\ bar' = [bar EXCEPT ![s] = 0]
            /\ pc' = [pc EXCEPT ![s] = "spinner"]
    /\ UNCHANGED <<session_state, queue, cur, sel, page, shown, df, cache, lock,
                   calls, memoCalls, budget, pre, last, faultAt, hit, got,
                   lastSet, incs, decs, requested, started>>

\* lines 242-248: the two-second spinner.
Spinner(s) ==
    /\ pc[s] = "spinner"
    /\ pc' = [pc EXCEPT ![s] = "init"]
    /\ UNCHANGED <<session_state, queue, cur, sel, page, bar, shown, df, cache,
                   lock, calls, memoCalls, budget, pre, last, faultAt, hit, got,
                   lastSet, incs, decs, requested, started>>

\* lines 251-252: if "counter" not in st.session_state: counter = 0
InitCounter(s) ==
    /\ pc[s] = "init"
    /\ LET m == get_or_init(session_state[s], "counter", 0) IN
         /\ session_state' = Write(session_state, s, m)
         /\ got' = [got EXCEPT ![s] = IF has(m, "counter") THEN <<m["counter"]>> ELSE <<>>]
    /\ pc' = [pc EXCEPT ![s] = "inc"]
    /\ UNCHANGED <<queue, cur, sel, page, bar, shown, df, cache, lock, calls,
                   memoCalls, budget, pre, last, faultAt, hit, lastSet, incs,
                   decs, requested, started>>

\* A button update: st.session_state.counter = v, v computed from the stored
\* value.  Reading a key that is not there raises (the pass ends as in Fault).
Update(s, v, name, next) ==
    IF has(session_state[s], "counter")
    THEN /\ session_state' = Write(session_state, s, set(session_state[s], "counter", v))
         /\ lastSet' = [lastSet EXCEPT ![s] = <<v>>]
         /\ hit' = [hit EXCEPT ![s] = name]
         /\ pc' = [pc EXCEPT ![s] = next]
         /\ UNCHANGED <<last, faultAt>>
    ELSE /\ pc' = [pc EXCEPT ![s] = "idle"]
         /\ last' = [last EXCEPT ![s] = "fault"]
         /\ faultAt' = [faultAt EXCEPT ![s] = pc[s]]
         /\ hit' = [hit EXCEPT ![s] = name]
         /\ UNCHANGED <<session_state, lastSet>>

Stored(s) == IF has(session_state[s], "counter") THEN session_state[s]["counter"] ELSE 0

\* lines 259-260: if st.button("Increment"): counter += 1
Increment(s) ==
    /\ pc[s] = "inc"
    /\ IF cur[s].trig = "inc"
       THEN /\ Update(s, increment(Stored(s)), "inc", "dec")
            /\ incs' = [incs EXCEPT ![s] = @ + 1]
       ELSE /\ pc' = [pc EXCEPT ![s] = "dec"]
            /\ UNCHANGED <<session_state, lastSet, hit, last, faultAt, incs>>
    /\ UNCHANGED <<queue, cur, sel, page, bar, shown, df, cache, lock, calls,
                   memoCalls, budget, pre, got, decs, requested, started>>

\* lines 261-262: if st.button("Decrement"): counter -= 1
Decrement(s) ==
    /\ pc[s] = "dec"
    /\ IF cur[s].trig = "dec"
       THEN /\ Update(s, decrement(Stored(s)), "dec", "display")
            /\ decs' = [decs EXCEPT ![s] = @ + 1]
       ELSE /\ pc' = [pc EXCEPT ![s] = "display"]
            /\ UNCHANGED <<session_state, lastSet, hit, last, faultAt, decs>>
    /\ UNCHANGED <<queue, cur, sel, page, bar, shown, df, cache, lock, calls,
                   memoCalls, budget, pre, got, incs, requested, started>>

displayed_stale(s) == IF has(pre[s], "counter") THEN pre[s]["counter"] ELSE 0

displayed(s) == session_state[s]["counter"]

\* lines 264-266: the counter value is written out; the pass ends.
Display(s) ==
    /\ pc[s] = "display"
    /\ shown' = [shown EXCEPT ![s] = <<displayed(s)>>]
    /\ EndPass(s)
    /\ UNCHANGED <<session_state, queue, cur, sel, page, bar, df, cache, lock,
                   calls, memoCalls, budget, pre, faultAt, hit, got, lastSet,
                   incs, decs, requested, started>>

----------------------------------------------------------------------------
Step(s) ==
    \/ Sidebar(s)
    \/ Widgets(s)
    \/ CacheRead(s)
    \/ CacheLock(s)
    \/ CacheCompute(s)
    \/ Charts(s)
    \/ Layout(s)
    \/ ProgressButton(s)
    \/ ProgressLoop(s)
    \/ Spinner(s)
    \/ InitCounter(s)
    \/ Increment(s)
    \/ Decrement(s)
    \/ Display(s)

Next ==
    \/ \E s \in Sessions : Connect(s)
    \/ \E s \in Sessions, w \in Triggers, m \in Modes : Interact(s, w, m)
    \/ \E s \in Sessions : StartRerun(s)
    \/ \E s \in Sessions : Fault(s)
    \/ \E s \in Sessions : Step(s)

Spec == Init /\ [][Next]_vars

SpecConc == InitConc /\ [][Next]_vars

\* The host keeps starting pending requests, and a running pass keeps running.
Fairness == \A s \in Sessions : WF_vars(StartRerun(s)) /\ WF_vars(Step(s))

SpecLive == InitLive /\ [][Next]_vars /\ Fairness

----------------------------------------------------------------------------
(* Properties *)

Counter(s) == session_state[s]["counter"]

\* The counter value a pass starts from: the stored one, else the default.
Base(s) == IF has(pre[s], "counter") THEN pre[s]["counter"] ELSE 0

\* C1: in a session that began without the key, the stored counter equals
\* the number of passes in which Increment returned True minus the number of
\* passes in which Decrement returned True; before the key exists neither
\* button has acted.
C1_CounterIsIncsMinusDecs ==
    \A s \in Sessions :
        IF has(session_state[s], "counter")
        THEN Counter(s) = incs[s] - decs[s]
        ELSE incs[s] = 0 /\ decs[s] = 0

\* three increments, then one decrement: counter = 2
C1_Witness ==
    /\ incs["A"] = 3
    /\ decs["A"] = 1
    /\ hit["A"] = "dec"
    /\ last["A"] = "ok"
    /\ Counter("A") = 2

\* C2: the initialisation of a pass after a button update returns the value
\* that update wrote, not the default, and leaves the mapping at it; it
\* writes the default exactly when the key was absent; and set followed at
\* once by get_or_init yields the value set.
C2_SetThenGetOrInit ==
    \A s \in Sessions :
        /\ got[s] # <<>> =>
              /\ has(pre[s], "counter") => got[s] = <<pre[s]["counter"]>>
              /\ ~has(pre[s], "counter") => got[s] = <<0>>
              /\ (lastSet[s] # <<>> /\ hit[s] = "none") =>
                    /\ got[s] = lastSet[s]
                    /\ has(session_state[s], "counter")
                    /\ <<Counter(s)>> = lastSet[s]
        /\ \A v \in {-1, 0, 1} :
              get_or_init(set(session_state[s], "counter", v), "counter", 0)
                  = set(session_state[s], "counter", v)

\* a pass right after its initialisation, the previous update having left 2
C2_Witness ==
    /\ pc["A"] = "inc"
    /\ lastSet["A"] = <<2>>
    /\ got["A"] = <<2>>
    /\ hit["A"] = "none"

\* C3: over all passes of the process the body of get_sample_data runs at
\* most once for (get_sample_data, rows=20), and every call returns the
\* stored table.
C3_ComputedAtMostOnce ==
    /\ calls <= 1
    /\ \A s \in Sessions :
          df[s] # <<>> => SampleKey \in DOMAIN cache /\ df[s] = <<cache[SampleKey]>>

\* the decorated function was called in three passes and ran once
C3_Witness ==
    /\ memoCalls >= 3
    /\ calls = 1
    /\ df["A"] # <<>>

Moved(a) == pc'[a] # pc[a] \/ bar'[a] # bar[a] \/ queue'[a] # queue[a]

\* C5: a step of one session never changes the mapping of another, and a
\* session's "counter" key appears only by that session's own initialisation.
C5_SessionsIsolated ==
    [][ \A a, b \in Sessions :
          /\ (a # b /\ Moved(a)) => session_state'[b] = session_state[b]
          /\ (~has(session_state[b], "counter") /\ has(session_state'[b], "counter"))
                => (pc[b] = "init" /\ Moved(b)) ]_vars

\* both sessions hold their own, different counter values
C5_Witness ==
    /\ has(session_state["A"], "counter")
    /\ has(session_state["B"], "counter")
    /\ Counter("A") = 1
    /\ Counter("B") = -1

\* C6: after a fault the mapping is the one the pass left at the fault: the
\* mapping from before the pass with the initialisation and the button update
\* applied if the fault came after them; the session is idle again.
ExpectedAtFault(s) ==
    LET at == faultAt[s]
        m1 == IF at \in {"inc", "dec", "display"}
              THEN set(pre[s], "counter", Base(s)) ELSE pre[s]
        m2 == IF at \in {"dec", "display"} /\ cur[s].trig = "inc"
              THEN set(m1, "counter", Base(s) + 1) ELSE m1
    IN  IF at = "display" /\ cur[s].trig = "dec"
        THEN set(m2, "counter", Base(s) - 1) ELSE m2

C8_OtherInteractionsKeepCounter ==
    \A s \in Sessions :
        (cur[s].trig \notin {"inc", "dec"} /\ has(pre[s], "counter"))
            => session_state[s] = pre[s]

\* the user left "Status & State" with counter = 1 and came back
C8_Witness ==
    /\ last["A"] = "ok"
    /\ cur["A"] = [mode |-> "Status & State", trig |-> "section"]
    /\ has(pre["A"], "counter")
    /\ pre["A"]["counter"] = 1
    /\ shown["A"] = <<1>>

\* C9: whenever a button update is about to run, or has run, the key is
\* present; no update ever found it missing.
C9_KeyPresentAtUpdate ==
    \A s \in Sessions :
        /\ pc[s] \in {"inc", "dec", "display"} => has(session_state[s], "counter")
        /\ ~(last[s] = "fault" /\ faultAt[s] = hit[s])

\* the first Increment of a session: third pass (load, section change, click)
C9_Witness ==
    /\ pc["A"] = "dec"
    /\ hit["A"] = "inc"
    /\ started["A"] = 3
    /\ ~has(pre["A"], "counter") \/ pre["A"]["counter"] = 0

\* C10: the value written out is the stored value after this pass's button
\* update: the starting value plus one after Increment, minus one after
\* Decrement, unchanged otherwise; one pass moves the counter by at most 1.
C10_DisplayAfterUpdate ==
    \A s \in Sessions :
        /\ shown[s] # <<>> =>
              /\ shown[s] = <<Counter(s)>>
              /\ hit[s] = "inc" => shown[s] = <<Base(s) + 1>>
              /\ hit[s] = "dec" => shown[s] = <<Base(s) - 1>>
              /\ hit[s] = "none" => shown[s] = <<Base(s)>>
        /\ has(session_state[s], "counter") =>
              /\ Counter(s) - Base(s) <= 1
              /\ Base(s) - Counter(s) <= 1

\* the pass of an Increment click shows 2 where 1 was stored
C10_Witness ==
    /\ shown["A"] = <<2>>
    /\ hit["A"] = "inc"
    /\ has(pre["A"], "counter")
    /\ pre["A"]["counter"] = 1

====
